---- MODULE Spec2Model ----
(***************************************************************************)
(* Model of the device synchronization engine of litra (src/main.rs):      *)
(* device_loop, handle_command and the reconciliation of device responses  *)
(* against pending software writes.                                        *)
(*                                                                         *)
(* Time.  A pending marker is an Option<Instant>; the code only ever reads *)
(* it through t.elapsed() < PENDING_TIMEOUT.  A set marker is therefore    *)
(* represented by the time elapsed since it was stamped (0 when stamped),  *)
(* advanced by every passage of time and saturating at PENDING_TIMEOUT.    *)
(*                                                                         *)
(* Observation.  io and evt_out describe the transport call made and the   *)
(* events sent on evt_tx by the step just taken, and prev holds the        *)
(* engine's variables as that step found them.  A step of the environment  *)
(* makes no transport call and sends no event.                             *)
(*                                                                         *)
(* History.  Two monitors record what a single step cannot show: the       *)
(* current run of failed open() calls with one text (run_text, ...), the   *)
(* replies read and events sent over the current connection (connects,     *)
(* replied, reported, stale).  They read io, evt_out and the state; the    *)
(* engine never reads them.  Spec runs the engine alone, SpecHistory       *)
(* runs it with the monitors recording.                                    *)
(*                                                                         *)
(* Front ends.  SpecUi runs main()'s event timer and UI callbacks against  *)
(* any batch of events the engine can send; SpecFunctions applies the pure *)
(* functions (clamping, codec) to bounded inputs; SpecStatus runs          *)
(* run_headless --status against any device.  A finite f32 is represented  *)
(* by twice its value (halves).                                            *)
(***************************************************************************)
EXTENDS Integers, Sequences, FiniteSets, TLC

\* ---- program constants ----
MIN_BRIGHTNESS == 20
MAX_BRIGHTNESS == 250
MIN_TEMPERATURE == 2700
MAX_TEMPERATURE == 6500
TEMPERATURE_STEP == 100
PENDING_TIMEOUT == 300
QUERY_DELAY == 100
RECV_TIMEOUT == 2000

\* ---- bounds of the model ----
MaxQueue == 2
TimeStep == 100
MaxRun == 3

NoMarker == -1

\* values carried by commands and responses
BrightnessVals == {MIN_BRIGHTNESS, 90}
TemperatureVals == {MIN_TEMPERATURE, 5000}

\* enum DeviceCommand
DeviceCommand ==
    {[op |-> "Retry"]}
    \cup {[op |-> "SetPower", on |-> b] : b \in BOOLEAN}
    \cup {[op |-> "SetBrightness", level |-> l] : l \in BrightnessVals \ {MIN_BRIGHTNESS}}
    \cup {[op |-> "SetTemperature", level |-> l] : l \in TemperatureVals \ {MIN_TEMPERATURE}}

\* enum Command (protocol.rs); NoCmd stands for "no command written"
GetPower == [op |-> "GetPower"]
GetBrightness == [op |-> "GetBrightness"]
GetTemperature == [op |-> "GetTemperature"]
NoCmd == [op |-> "None"]

\* enum Response (protocol.rs): field, value, is_hardware_sourced
Response ==
    {[field |-> "Power", on |-> b, hw |-> h] : b \in BOOLEAN, h \in BOOLEAN}
    \cup {[field |-> "Brightness", level |-> l, hw |-> h] : l \in BrightnessVals, h \in BOOLEAN}
    \cup {[field |-> "Temperature", level |-> l, hw |-> h] : l \in TemperatureVals, h \in BOOLEAN}
NoResp == [field |-> "None"]

\* enum DeviceEvent
EvConnected == [kind |-> "Connected"]
EvPower(on) == [kind |-> "Power", on |-> on]
EvBrightness(level) == [kind |-> "Brightness", level |-> level]
EvTemperature(level) == [kind |-> "Temperature", level |-> level]
EvError(message) == [kind |-> "Error", message |-> message]

\* usb::Error as displayed (Display for Error), and the engine's own text
ErrNotFound == "Litra device not found"
ErrHid == "HID error"
ErrDisconnected == "Device disconnected"
OpenErrors == {ErrNotFound, ErrHid}
NoError == "None"

\* main: the error property before the first event
Connecting == "Connecting..."

\* Option<T>
None == [some |-> FALSE]
Some(v) == [some |-> TRUE, v |-> v]

\* no function applied yet; run_headless --status not started
NoCall == [fn |-> "none"]
StatusIdle == [pc |-> "idle", polls |-> 0, power |-> None, brightness |-> None,
               temperature |-> None, arrived |-> {}, brightness_pct |-> None]

VARIABLES
    pc,          \* position of device_loop
    device,      \* device.is_some()
    last_error,  \* Option<String>
    state,       \* DeviceState
    cmd_q,       \* commands in the command channel
    closed,      \* all senders of the command channel dropped
    io,          \* transport call of the step just taken
    evt_out,     \* events sent on evt_tx by the step just taken
    prev,        \* the engine's variables at the start of the step just taken
    run_text,    \* monitor: text of the current run of failed open() calls
    run_len,     \* monitor: failed open() calls in the run (up to MaxRun)
    run_errs,    \* monitor: Error events sent for them (up to MaxRun)
    connects,    \* monitor: Connected events sent since the last open()
    replied,     \* monitor: fields with a non-hardware reply read on this connection
    reported,    \* monitor: ... whose read sent the event carrying the replied value
    stale,       \* monitor: ... read while the field's marker was inside its window
    link,        \* monitor: the last Connected / 'Device disconnected' event sent
    stream_ok,   \* monitor: no event so far was sent out of turn
    initialized, \* main: Rc<Cell<bool>> initialized
    init_count,  \* main: Rc<Cell<u8>> init_count
    app,         \* main: the AppWindow properties set by the timer handler
    updated,     \* fields for which the timer handler has handled an event
    at_init,     \* ... at the moment initialized was set
    sent,        \* command sent on cmd_tx by the UI callback just run
    call,        \* the pure function just applied: name, argument, result
    status       \* run_headless --status: position, polls, values read

mon == <<run_text, run_len, run_errs, connects, replied, reported, stale, link, stream_ok>>

engine == <<pc, device, last_error, state, cmd_q, closed, io, evt_out, prev>>

ui == <<initialized, init_count, app, updated, at_init, sent>>

cli == <<call, status>>

vars == <<pc, device, last_error, state, cmd_q, closed, io, evt_out, prev, mon, ui, cli>>

Fields == {"Power", "Brightness", "Temperature"}

NoIo == [call |-> "none", cmd |-> NoCmd, ok |-> TRUE, err |-> NoError, resp |-> NoResp]
IoOpen(e) == [call |-> "open", cmd |-> NoCmd, ok |-> (e = NoError), err |-> e, resp |-> NoResp]
IoSend(c, ok) == [call |-> "send", cmd |-> c, ok |-> ok, err |-> NoError, resp |-> NoResp]
IoRead(ok, r) == [call |-> "read", cmd |-> NoCmd, ok |-> ok, err |-> NoError, resp |-> r]

\* the engine's variables as a step finds them
Snapshot == [pc |-> pc, device |-> device, last_error |-> last_error,
             state |-> state, cmd_q |-> cmd_q]

\* ---- time ----
Min(a, b) == IF a < b THEN a ELSE b

\* a marker after d more milliseconds
Aged(m, d) == IF m = NoMarker THEN NoMarker ELSE Min(m + d, PENDING_TIMEOUT)

Later(st, d) ==
    [st EXCEPT !.pending_brightness = Aged(@, d),
               !.pending_temperature = Aged(@, d)]

\* ---- handle_command ----
\* variant: SetBrightness / SetTemperature do not stamp the marker
ApplyCommand_NoStamp(cmd, st) ==
    CASE cmd.op = "Retry" -> st
      [] cmd.op = "SetPower" -> [st EXCEPT !.power = cmd.on]
      [] cmd.op = "SetBrightness" -> [st EXCEPT !.brightness = cmd.level]
      [] cmd.op = "SetTemperature" -> [st EXCEPT !.temperature = cmd.level]

\* variant: SetPower flips the power it finds
ApplyCommand_Toggles(cmd, st) ==
    CASE cmd.op = "Retry" -> st
      [] cmd.op = "SetPower" -> [st EXCEPT !.power = ~@]
      [] cmd.op = "SetBrightness" ->
            [st EXCEPT !.brightness = cmd.level, !.pending_brightness = 0]
      [] cmd.op = "SetTemperature" ->
            [st EXCEPT !.temperature = cmd.level, !.pending_temperature = 0]

\* the mutation of DeviceState, which precedes the write
ApplyCommand(cmd, st) ==
    CASE cmd.op = "Retry" -> st
      [] cmd.op = "SetPower" -> [st EXCEPT !.power = cmd.on]
      [] cmd.op = "SetBrightness" ->
            [st EXCEPT !.brightness = cmd.level, !.pending_brightness = 0]
      [] cmd.op = "SetTemperature" ->
            [st EXCEPT !.temperature = cmd.level, !.pending_temperature = 0]

\* the protocol command handle_command sends when it has a device
CommandWrite(cmd) == IF cmd.op = "Retry" THEN NoCmd ELSE cmd

\* ---- reconciliation of a response (device_loop, match response) ----
Elapsed(m) == m

\* variants of the acceptance test
AcceptMarker_Inverted(m, is_hw) == is_hw \/ m = NoMarker \/ Elapsed(m) < PENDING_TIMEOUT

AcceptMarker_IgnoresHw(m, is_hw) == m = NoMarker \/ ~(Elapsed(m) < PENDING_TIMEOUT)

AcceptMarker_NeedsMarker(m, is_hw) ==
    is_hw \/ (m # NoMarker /\ ~(Elapsed(m) < PENDING_TIMEOUT))

AcceptMarker(m, is_hw) == is_hw \/ m = NoMarker \/ ~(Elapsed(m) < PENDING_TIMEOUT)

\* variant: an accepted confirmation leaves the marker
ClearedMarker_Never(m, is_hw) == m

\* variant: a hardware-sourced response restarts the window
ClearedMarker_HwRestamps(m, is_hw) ==
    IF is_hw /\ m # NoMarker THEN 0
    ELSE IF m # NoMarker /\ ~(Elapsed(m) < PENDING_TIMEOUT) THEN NoMarker ELSE m

\* variant: every accepted response clears the marker
ClearedMarker_AnyAccepted(m, is_hw) == NoMarker

ClearedMarker(m, is_hw) ==
    IF ~is_hw /\ m # NoMarker /\ ~(Elapsed(m) < PENDING_TIMEOUT) THEN NoMarker ELSE m

Reconcile(r, st) ==
    CASE r.field = "Power" -> [st EXCEPT !.power = r.on]
      [] r.field = "Brightness" ->
            IF AcceptMarker(st.pending_brightness, r.hw)
            THEN [st EXCEPT !.brightness = r.level,
                            !.pending_brightness = ClearedMarker(@, r.hw)]
            ELSE st
      [] r.field = "Temperature" ->
            IF AcceptMarker(st.pending_temperature, r.hw)
            THEN [st EXCEPT !.temperature = r.level,
                            !.pending_temperature = ClearedMarker(@, r.hw)]
            ELSE st

\* variant: an accepted Temperature response is not published
ReconcileEvents_TemperatureSilent(r, st) ==
    CASE r.field = "Power" -> <<EvPower(r.on)>>
      [] r.field = "Brightness" ->
            IF AcceptMarker(st.pending_brightness, r.hw)
            THEN <<EvBrightness(r.level)>> ELSE <<>>
      [] r.field = "Temperature" -> <<>>

\* variant: a Power response that repeats the known value is not republished
ReconcileEvents_PowerDedup(r, st) ==
    CASE r.field = "Power" -> IF r.on = st.power THEN <<>> ELSE <<EvPower(r.on)>>
      [] r.field = "Brightness" ->
            IF AcceptMarker(st.pending_brightness, r.hw)
            THEN <<EvBrightness(r.level)>> ELSE <<>>
      [] r.field = "Temperature" ->
            IF AcceptMarker(st.pending_temperature, r.hw)
            THEN <<EvTemperature(r.level)>> ELSE <<>>

ReconcileEvents(r, st) ==
    CASE r.field = "Power" -> <<EvPower(r.on)>>
      [] r.field = "Brightness" ->
            IF AcceptMarker(st.pending_brightness, r.hw)
            THEN <<EvBrightness(r.level)>> ELSE <<>>
      [] r.field = "Temperature" ->
            IF AcceptMarker(st.pending_temperature, r.hw)
            THEN <<EvTemperature(r.level)>> ELSE <<>>

\* ---- initial state: main() spawning device_loop ----
Init ==
    /\ pc = "open"
    /\ device = FALSE
    /\ last_error = NoError
    /\ state = [power |-> FALSE, brightness |-> MIN_BRIGHTNESS,
                temperature |-> MIN_TEMPERATURE,
                pending_brightness |-> NoMarker, pending_temperature |-> NoMarker]
    /\ cmd_q = <<>>
    /\ closed = FALSE
    /\ io = NoIo
    /\ evt_out = <<>>
    /\ prev = Snapshot
    /\ run_text = NoError
    /\ run_len = 0
    /\ run_errs = 0
    /\ connects = 0
    /\ replied = {}
    /\ reported = {}
    /\ stale = {}
    /\ link = "never"
    /\ stream_ok = TRUE
    /\ initialized = FALSE
    /\ init_count = 0
    /\ app = [power |-> FALSE, brightness |-> MIN_BRIGHTNESS,
              temperature |-> MIN_TEMPERATURE, error |-> Connecting]
    /\ updated = {}
    /\ at_init = {}
    /\ sent = NoCmd
    /\ call = NoCall
    /\ status = StatusIdle

\* ---- device_loop ----
\* LitraDevice::open() succeeds
OpenOk ==
    /\ pc = "open"
    /\ pc' = "get_power"
    /\ io' = IoOpen(NoError)
    /\ evt_out' = <<>>
    /\ prev' = Snapshot
    /\ UNCHANGED <<device, last_error, state, cmd_q, closed>>

\* variant: the text of the failure is not recorded
OpenErr_ForgetsText(message) ==
    /\ pc = "open"
    /\ pc' = "recv"
    /\ io' = IoOpen(message)
    /\ IF last_error # message
       THEN evt_out' = <<EvError(message)>> /\ UNCHANGED last_error
       ELSE evt_out' = <<>> /\ UNCHANGED last_error
    /\ prev' = Snapshot
    /\ UNCHANGED <<device, state, cmd_q, closed>>

\* LitraDevice::open() fails with the given text
OpenErr(message) ==
    /\ pc = "open"
    /\ pc' = "recv"
    /\ io' = IoOpen(message)
    /\ IF last_error # message
       THEN evt_out' = <<EvError(message)>> /\ last_error' = message
       ELSE evt_out' = <<>> /\ UNCHANGED last_error
    /\ prev' = Snapshot
    /\ UNCHANGED <<device, state, cmd_q, closed>>

\* dev.send(Command::GetPower); sleep
SendGetPower(ok) ==
    /\ pc = "get_power"
    /\ pc' = "get_brightness"
    /\ io' = IoSend(GetPower, ok)
    /\ evt_out' = <<>>
    /\ prev' = Snapshot
    /\ state' = Later(state, QUERY_DELAY)
    /\ UNCHANGED <<device, last_error, cmd_q, closed>>

\* variant: the temperature query is sent in place of the brightness query
SendGetBrightness_Swapped(ok) ==
    /\ pc = "get_brightness"
    /\ pc' = "get_temperature"
    /\ io' = IoSend(GetTemperature, ok)
    /\ evt_out' = <<>>
    /\ prev' = Snapshot
    /\ state' = Later(state, QUERY_DELAY)
    /\ UNCHANGED <<device, last_error, cmd_q, closed>>

\* dev.send(Command::GetBrightness); sleep
SendGetBrightness(ok) ==
    /\ pc = "get_brightness"
    /\ pc' = "get_temperature"
    /\ io' = IoSend(GetBrightness, ok)
    /\ evt_out' = <<>>
    /\ prev' = Snapshot
    /\ state' = Later(state, QUERY_DELAY)
    /\ UNCHANGED <<device, last_error, cmd_q, closed>>

\* dev.send(Command::GetTemperature); device = Some(dev); Connected
SendGetTemperature(ok) ==
    /\ pc = "get_temperature"
    /\ pc' = "tick"
    /\ io' = IoSend(GetTemperature, ok)
    /\ device' = TRUE
    /\ last_error' = NoError
    /\ evt_out' = <<EvConnected>>
    /\ prev' = Snapshot
    /\ UNCHANGED <<state, cmd_q, closed>>

\* variant: a command received while disconnected is discarded
RecvCmd_Discards ==
    /\ pc = "recv"
    /\ cmd_q # <<>>
    /\ cmd_q' = Tail(cmd_q)
    /\ pc' = "open"
    /\ io' = NoIo
    /\ evt_out' = <<>>
    /\ prev' = Snapshot
    /\ UNCHANGED <<device, last_error, state, closed>>

\* recv_timeout returns a command while disconnected
RecvCmd ==
    /\ pc = "recv"
    /\ cmd_q # <<>>
    /\ state' = ApplyCommand(Head(cmd_q), state)
    /\ cmd_q' = Tail(cmd_q)
    /\ pc' = "open"
    /\ io' = NoIo
    /\ evt_out' = <<>>
    /\ prev' = Snapshot
    /\ UNCHANGED <<device, last_error, closed>>

\* recv_timeout returns RecvTimeoutError::Disconnected
RecvDisconnected ==
    /\ pc = "recv"
    /\ cmd_q = <<>>
    /\ closed
    /\ pc' = "done"
    /\ io' = NoIo
    /\ evt_out' = <<>>
    /\ prev' = Snapshot
    /\ UNCHANGED <<device, last_error, state, cmd_q, closed>>

\* recv_timeout returns RecvTimeoutError::Timeout
RecvTimeout ==
    /\ pc = "recv"
    /\ cmd_q = <<>>
    /\ ~closed
    /\ pc' = "open"
    /\ io' = NoIo
    /\ evt_out' = <<>>
    /\ prev' = Snapshot
    /\ state' = Later(state, RECV_TIMEOUT)
    /\ UNCHANGED <<device, last_error, cmd_q, closed>>

\* variant: the handle is dropped without the Error event
Disconnect_Silent ==
    /\ device' = FALSE
    /\ evt_out' = <<>>
    /\ pc' = "open"

\* variant: the handle is kept
Disconnect_KeepsHandle ==
    /\ UNCHANGED device
    /\ evt_out' = <<EvError(ErrDisconnected)>>
    /\ pc' = "tick"

\* if disconnected { device = None; send Error("Device disconnected") }
Disconnect ==
    /\ device' = FALSE
    /\ evt_out' = <<EvError(ErrDisconnected)>>
    /\ pc' = "open"

\* variant: a failed command empties the queue
DrainCmd_DropsRest(ok) ==
    /\ pc = "tick"
    /\ cmd_q # <<>>
    /\ LET cmd == Head(cmd_q) IN
        /\ state' = ApplyCommand(cmd, state)
        /\ IF CommandWrite(cmd) = NoCmd
           THEN /\ ok
                /\ cmd_q' = Tail(cmd_q)
                /\ io' = NoIo
                /\ evt_out' = <<>>
                /\ UNCHANGED <<pc, device>>
           ELSE /\ io' = IoSend(CommandWrite(cmd), ok)
                /\ IF ok
                   THEN cmd_q' = Tail(cmd_q) /\ evt_out' = <<>> /\ UNCHANGED <<pc, device>>
                   ELSE cmd_q' = <<>> /\ Disconnect
    /\ prev' = Snapshot
    /\ UNCHANGED <<last_error, closed>>

\* variant: a command whose write fails leaves DeviceState as it was
DrainCmd_RollsBack(ok) ==
    /\ pc = "tick"
    /\ cmd_q # <<>>
    /\ LET cmd == Head(cmd_q) IN
        /\ cmd_q' = Tail(cmd_q)
        /\ IF CommandWrite(cmd) = NoCmd
           THEN /\ ok
                /\ state' = ApplyCommand(cmd, state)
                /\ io' = NoIo
                /\ evt_out' = <<>>
                /\ UNCHANGED <<pc, device>>
           ELSE /\ io' = IoSend(CommandWrite(cmd), ok)
                /\ IF ok
                   THEN /\ state' = ApplyCommand(cmd, state)
                        /\ evt_out' = <<>>
                        /\ UNCHANGED <<pc, device>>
                   ELSE UNCHANGED state /\ Disconnect
    /\ prev' = Snapshot
    /\ UNCHANGED <<last_error, closed>>

\* connected tick: try_recv returns a command, handle_command(cmd, Some(dev))
DrainCmd(ok) ==
    /\ pc = "tick"
    /\ cmd_q # <<>>
    /\ LET cmd == Head(cmd_q) IN
        /\ state' = ApplyCommand(cmd, state)
        /\ cmd_q' = Tail(cmd_q)
        /\ IF CommandWrite(cmd) = NoCmd
           THEN /\ ok
                /\ io' = NoIo
                /\ evt_out' = <<>>
                /\ UNCHANGED <<pc, device>>
           ELSE /\ io' = IoSend(CommandWrite(cmd), ok)
                /\ IF ok
                   THEN evt_out' = <<>> /\ UNCHANGED <<pc, device>>
                   ELSE Disconnect
    /\ prev' = Snapshot
    /\ UNCHANGED <<last_error, closed>>

\* connected tick: the queue is drained, dev.try_read() fails
ReadErr ==
    /\ pc = "tick"
    /\ cmd_q = <<>>
    /\ io' = IoRead(FALSE, NoResp)
    /\ Disconnect
    /\ prev' = Snapshot
    /\ UNCHANGED <<last_error, state, cmd_q, closed>>

\* connected tick: the queue is drained, dev.try_read() returns Ok(None)
ReadNone ==
    /\ pc = "tick"
    /\ cmd_q = <<>>
    /\ io' = IoRead(TRUE, NoResp)
    /\ evt_out' = <<>>
    /\ prev' = Snapshot
    /\ UNCHANGED <<pc, device, last_error, state, cmd_q, closed>>

\* variant: the read is made before the queue is drained
ReadSome_BeforeDrain(r) ==
    /\ pc = "tick"
    /\ io' = IoRead(TRUE, r)
    /\ state' = Reconcile(r, state)
    /\ evt_out' = ReconcileEvents(r, state)
    /\ prev' = Snapshot
    /\ UNCHANGED <<pc, device, last_error, cmd_q, closed>>

\* connected tick: the queue is drained, dev.try_read() returns Ok(Some(r))
ReadSome(r) ==
    /\ pc = "tick"
    /\ cmd_q = <<>>
    /\ io' = IoRead(TRUE, r)
    /\ state' = Reconcile(r, state)
    /\ evt_out' = ReconcileEvents(r, state)
    /\ prev' = Snapshot
    /\ UNCHANGED <<pc, device, last_error, cmd_q, closed>>

\* ---- environment ----
\* a sender submits a command (cmd_tx.send)
Submit(cmd) ==
    /\ ~closed
    /\ Len(cmd_q) < MaxQueue
    /\ cmd_q' = Append(cmd_q, cmd)
    /\ io' = NoIo
    /\ evt_out' = <<>>
    /\ UNCHANGED <<pc, device, last_error, state, closed>>
    /\ prev' = Snapshot'

\* the last sender of the command channel is dropped
Close ==
    /\ ~closed
    /\ closed' = TRUE
    /\ io' = NoIo
    /\ evt_out' = <<>>
    /\ UNCHANGED <<pc, device, last_error, state, cmd_q>>
    /\ prev' = Snapshot'

\* time passes
Elapse ==
    /\ pc # "done"
    /\ state' = Later(state, TimeStep)
    /\ state' # state
    /\ io' = NoIo
    /\ evt_out' = <<>>
    /\ UNCHANGED <<pc, device, last_error, cmd_q, closed>>
    /\ prev' = Snapshot'

\* ---- monitors ----
Count(seq, e) == Cardinality({i \in 1..Len(seq) : seq[i] = e})

\* the run of consecutive failed open() calls with one text
ObserveRun ==
    IF io'.call # "open" THEN UNCHANGED <<run_text, run_len, run_errs>>
    ELSE IF io'.ok THEN run_text' = NoError /\ run_len' = 0 /\ run_errs' = 0
    ELSE IF io'.err = run_text
         THEN /\ run_len' = Min(run_len + 1, MaxRun)
              /\ run_errs' = Min(run_errs + Count(evt_out', EvError(io'.err)), MaxRun)
              /\ UNCHANGED run_text
         ELSE /\ run_text' = io'.err
              /\ run_len' = 1
              /\ run_errs' = Count(evt_out', EvError(io'.err))

MarkerOf(field, st) ==
    CASE field = "Brightness" -> st.pending_brightness
      [] field = "Temperature" -> st.pending_temperature
      [] OTHER -> NoMarker

EventOf(r) ==
    CASE r.field = "Power" -> EvPower(r.on)
      [] r.field = "Brightness" -> EvBrightness(r.level)
      [] r.field = "Temperature" -> EvTemperature(r.level)

\* the replies read and the events sent over the current connection
ObserveSession ==
    /\ connects' = IF io'.call = "open" THEN 0
                   ELSE Min(connects + Count(evt_out', EvConnected), 2)
    /\ IF ~device'
       THEN replied' = {} /\ reported' = {} /\ stale' = {}
       ELSE IF io'.call = "read" /\ io'.ok /\ io'.resp \in Response /\ ~io'.resp.hw
       THEN LET f == io'.resp.field IN
            /\ replied' = replied \cup {f}
            /\ reported' = IF evt_out' = <<EventOf(io'.resp)>>
                           THEN reported \cup {f} ELSE reported
            /\ stale' = IF MarkerOf(f, state) # NoMarker
                            /\ MarkerOf(f, state) < PENDING_TIMEOUT
                         THEN stale \cup {f} ELSE stale
       ELSE UNCHANGED <<replied, reported, stale>>

\* the event stream read in order: link after an event, and whether the
\* event came in turn (a field update and 'Device disconnected' only after
\* Connected, Connected only after none or 'Device disconnected')
LinkAfter(e, l) ==
    IF e = EvConnected THEN "up"
    ELSE IF e = EvError(ErrDisconnected) THEN "down"
    ELSE l

InTurn(e, l) ==
    IF e = EvConnected THEN l # "up"
    ELSE IF e = EvError(ErrDisconnected) THEN l = "up"
    ELSE IF e.kind \in Fields THEN l = "up"
    ELSE TRUE

RECURSIVE LinkOver(_, _)
LinkOver(events, l) ==
    IF events = <<>> THEN l ELSE LinkOver(Tail(events), LinkAfter(Head(events), l))

RECURSIVE AllInTurn(_, _)
AllInTurn(events, l) ==
    IF events = <<>> THEN TRUE
    ELSE InTurn(Head(events), l) /\ AllInTurn(Tail(events), LinkAfter(Head(events), l))

ObserveStream ==
    /\ link' = LinkOver(evt_out', link)
    /\ stream_ok' = (stream_ok /\ AllInTurn(evt_out', link))

Observed == ObserveRun /\ ObserveSession /\ ObserveStream /\ UNCHANGED <<ui, cli>>

Unobserved == UNCHANGED <<mon, ui, cli>>

\* ---- the engine alone ----
Next ==
    \/ OpenOk /\ Unobserved
    \/ \E m \in OpenErrors : OpenErr(m) /\ Unobserved
    \/ \E ok \in BOOLEAN : SendGetPower(ok) /\ Unobserved
    \/ \E ok \in BOOLEAN : SendGetBrightness(ok) /\ Unobserved
    \/ \E ok \in BOOLEAN : SendGetTemperature(ok) /\ Unobserved
    \/ RecvCmd /\ Unobserved
    \/ RecvDisconnected /\ Unobserved
    \/ RecvTimeout /\ Unobserved
    \/ \E ok \in BOOLEAN : DrainCmd(ok) /\ Unobserved
    \/ ReadErr /\ Unobserved
    \/ ReadNone /\ Unobserved
    \/ \E r \in Response : ReadSome(r) /\ Unobserved
    \/ \E cmd \in DeviceCommand : Submit(cmd) /\ Unobserved
    \/ Close /\ Unobserved
    \/ Elapse /\ Unobserved

Spec == Init /\ [][Next]_vars

\* ---- the engine thread keeps running ----
\* one step of device_loop, whatever the transport answers
EngineStep ==
    \/ OpenOk /\ Unobserved
    \/ \E m \in OpenErrors : OpenErr(m) /\ Unobserved
    \/ \E ok \in BOOLEAN : SendGetPower(ok) /\ Unobserved
    \/ \E ok \in BOOLEAN : SendGetBrightness(ok) /\ Unobserved
    \/ \E ok \in BOOLEAN : SendGetTemperature(ok) /\ Unobserved
    \/ RecvCmd /\ Unobserved
    \/ RecvDisconnected /\ Unobserved
    \/ RecvTimeout /\ Unobserved
    \/ \E ok \in BOOLEAN : DrainCmd(ok) /\ Unobserved
    \/ ReadErr /\ Unobserved
    \/ ReadNone /\ Unobserved
    \/ \E r \in Response : ReadSome(r) /\ Unobserved

\* the thread spawned for device_loop is scheduled as long as it has a step
\* to take; nothing is assumed of the transport's answers or of the senders
SpecFair == Init /\ [][Next]_vars /\ WF_vars(EngineStep)

\* ---- the engine with the monitors recording ----
NextHistory ==
    \/ OpenOk /\ Observed
    \/ \E m \in OpenErrors : OpenErr(m) /\ Observed
    \/ \E ok \in BOOLEAN : SendGetPower(ok) /\ Observed
    \/ \E ok \in BOOLEAN : SendGetBrightness(ok) /\ Observed
    \/ \E ok \in BOOLEAN : SendGetTemperature(ok) /\ Observed
    \/ RecvCmd /\ Observed
    \/ RecvDisconnected /\ Observed
    \/ RecvTimeout /\ Observed
    \/ \E ok \in BOOLEAN : DrainCmd(ok) /\ Observed
    \/ ReadErr /\ Observed
    \/ ReadNone /\ Observed
    \/ \E r \in Response : ReadSome(r) /\ Observed
    \/ \E cmd \in DeviceCommand : Submit(cmd) /\ Observed
    \/ Close /\ Observed
    \/ Elapse /\ Observed

SpecHistory == Init /\ [][NextHistory]_vars

\* ---- numbers ----
U16 == 65536
I32_MAX == 2147483647
I32_MIN == -I32_MAX - 1

\* Ord::clamp
Clamp(x, lo, hi) == IF x < lo THEN lo ELSE IF x > hi THEN hi ELSE x

\* an f32: NaN, an infinity, or the finite value h / 2
F32(h) == [kind |-> "finite", h |-> h]
NaN == [kind |-> "NaN", h |-> 0]
PosInf == [kind |-> "+inf", h |-> 0]
NegInf == [kind |-> "-inf", h |-> 0]

\* f32::round of h / 2: to the nearest integer, halves away from zero
Round(h) == IF h >= 0 THEN (h + 1) \div 2 ELSE -((1 - h) \div 2)

\* value.round() as i32: the cast saturates and takes NaN to 0
RoundAsI32(value) ==
    CASE value.kind = "NaN" -> 0
      [] value.kind = "+inf" -> I32_MAX
      [] value.kind = "-inf" -> I32_MIN
      [] OTHER -> Clamp(Round(value.h), I32_MIN, I32_MAX)

clamp_brightness(value) == Clamp(RoundAsI32(value), MIN_BRIGHTNESS, MAX_BRIGHTNESS)

clamp_temperature(value) ==
    LET clamped == Clamp(RoundAsI32(value), MIN_TEMPERATURE, MAX_TEMPERATURE)
        step == TEMPERATURE_STEP
        half == step \div 2
        stepped == ((((clamped + half) % U16) \div step) * step) % U16
    IN Clamp(stepped, MIN_TEMPERATURE, MAX_TEMPERATURE)

\* ---- main: the event timer and the UI callbacks ----
MaxBatch == 2

\* the events device_loop can send
DeviceEvent ==
    {EvConnected}
    \cup {EvPower(b) : b \in BOOLEAN}
    \cup {EvBrightness(l) : l \in BrightnessVals}
    \cup {EvTemperature(l) : l \in TemperatureVals}
    \cup {EvError(m) : m \in OpenErrors \cup {ErrDisconnected}}

\* what evt_rx holds when the timer fires
EventBatches == UNION {[1..k -> DeviceEvent] : k \in 0..MaxBatch}

\* slider positions handed to the callbacks
BrightnessInputs == {NaN, F32(39), F32(180), F32(503)}
TemperatureInputs == {NegInf, F32(5300), F32(9900), F32(13100)}

Ui == [initialized |-> initialized, init_count |-> init_count, app |-> app,
       updated |-> updated, at_init |-> at_init]

\* one iteration of `while let Ok(event) = evt_rx.try_recv()`
HandleEvent(e, u) ==
    LET isField == e.kind \in Fields
        n == IF isField /\ ~u.initialized THEN (u.init_count + 1) % 256 ELSE u.init_count
        a == CASE e.kind = "Connected" -> [u.app EXCEPT !.error = ""]
               [] e.kind = "Power" -> [u.app EXCEPT !.power = e.on]
               [] e.kind = "Brightness" -> [u.app EXCEPT !.brightness = e.level]
               [] e.kind = "Temperature" -> [u.app EXCEPT !.temperature = e.level]
               [] e.kind = "Error" -> [u.app EXCEPT !.error = e.message]
        upd == IF isField THEN u.updated \cup {e.kind} ELSE u.updated
        done == ~u.initialized /\ n >= 2
    IN [initialized |-> u.initialized \/ done, init_count |-> n, app |-> a,
        updated |-> upd, at_init |-> IF done THEN upd ELSE u.at_init]

RECURSIVE Drain(_, _)
Drain(batch, u) ==
    IF batch = <<>> THEN u ELSE Drain(Tail(batch), HandleEvent(Head(batch), u))

\* the repeated timer fires and drains evt_rx
TimerTick(batch) ==
    LET u == Drain(batch, Ui) IN
    /\ initialized' = u.initialized
    /\ init_count' = u.init_count
    /\ app' = u.app
    /\ updated' = u.updated
    /\ at_init' = u.at_init
    /\ sent' = NoCmd
    /\ UNCHANGED <<engine, mon, cli>>

\* variant: no callback checks initialized
Callback_Ungated(gated, cmd) ==
    /\ sent' = cmd
    /\ UNCHANGED <<initialized, init_count, app, updated, at_init>>
    /\ UNCHANGED <<engine, mon, cli>>

\* a callback sends cmd unless it returns early
Callback(gated, cmd) ==
    /\ sent' = IF gated /\ ~initialized THEN NoCmd ELSE cmd
    /\ UNCHANGED <<initialized, init_count, app, updated, at_init>>
    /\ UNCHANGED <<engine, mon, cli>>

on_brightness_changed(value) ==
    Callback(TRUE, [op |-> "SetBrightness", level |-> clamp_brightness(value)])

on_temperature_changed(value) ==
    Callback(TRUE, [op |-> "SetTemperature", level |-> clamp_temperature(value)])

on_power_toggled(on) == Callback(TRUE, [op |-> "SetPower", on |-> on])

on_retry_connect == Callback(FALSE, [op |-> "Retry"])

NextUi ==
    \/ \E batch \in EventBatches : TimerTick(batch)
    \/ \E value \in BrightnessInputs : on_brightness_changed(value)
    \/ \E value \in TemperatureInputs : on_temperature_changed(value)
    \/ \E on \in BOOLEAN : on_power_toggled(on)
    \/ on_retry_connect

SpecUi == Init /\ [][NextUi]_vars

\* ---- run_headless: --brightness and --temperature ----
\* variant: the percentage is used as given
BrightnessOfPercent_Unclamped(percent) ==
    (MIN_BRIGHTNESS + ((percent * (MAX_BRIGHTNESS - MIN_BRIGHTNESS)) % U16) \div 100) % U16

\* the level sent for --brightness percent (a u8)
BrightnessOfPercent(percent) ==
    LET level == Clamp(percent, 0, 100)
    IN (MIN_BRIGHTNESS + ((level * (MAX_BRIGHTNESS - MIN_BRIGHTNESS)) % U16) \div 100) % U16

\* the value sent for --temperature temp (a u16)
TemperatureOfKelvin(temp) == Clamp(temp, MIN_TEMPERATURE, MAX_TEMPERATURE)

\* arguments tried
Percents == 0..255
Kelvins == {0, 2650, 2700, 2749, 2750, 2800, 5000, 6450, 6500, 6549, 65535}
SliderBrightness ==
    {NaN, PosInf, NegInf}
    \cup {F32(h) : h \in {-1, 0, 38, 39, 40, 41, 180, 181, 499, 500, 501, 600, 2000000}}
SliderTemperature ==
    {NaN, PosInf, NegInf}
    \cup {F32(h) : h \in {-5300, 0, 5299, 5300, 5400, 5498, 5499, 5500, 5501, 9900,
                          12898, 12899, 12900, 13000, 13100, 131072, 2000000}}

Applied1(fn, arg, out) ==
    /\ call' = [fn |-> fn, arg |-> arg, out |-> out]
    /\ UNCHANGED <<engine, mon, ui, status>>

\* the GUI path: the callback clamps the slider value
GuiBrightness(value) == Applied1("clamp_brightness", value, clamp_brightness(value))

GuiTemperature(value) == Applied1("clamp_temperature", value, clamp_temperature(value))

\* the headless path: the value of the command sent
HeadlessBrightness(percent) ==
    Applied1("headless_brightness", percent, BrightnessOfPercent(percent))

HeadlessTemperature(temp) ==
    Applied1("headless_temperature", temp, TemperatureOfKelvin(temp))

\* ---- run_headless: --status ----
POLLS == 10

\* responses try_read can decode: the brightness byte is whatever data[5] holds
StatusBytes == {0, 19, 20, 135, 250, 251, 255}
StatusResponse ==
    {[field |-> "Power", on |-> b, hw |-> h] : b \in BOOLEAN, h \in BOOLEAN}
    \cup {[field |-> "Brightness", level |-> l, hw |-> h] : l \in StatusBytes, h \in BOOLEAN}
    \cup {[field |-> "Temperature", level |-> l, hw |-> h] : l \in TemperatureVals, h \in BOOLEAN}

\* ((b - MIN_BRIGHTNESS) * 100) / (MAX_BRIGHTNESS - MIN_BRIGHTNESS) in u16:
\* an overflowing step panics when the build checks overflow and wraps otherwise
BrightnessPct(b, overflow_checks) ==
    LET diff == b - MIN_BRIGHTNESS
        prod == (diff % U16) * 100
    IN IF overflow_checks /\ (diff < 0 \/ prod >= U16)
       THEN [panic |-> TRUE, v |-> 0]
       ELSE [panic |-> FALSE, v |-> (prod % U16) \div (MAX_BRIGHTNESS - MIN_BRIGHTNESS)]

\* open and the three query sends; an error returns Err
StatusStart(ok) ==
    /\ status.pc = "idle"
    /\ status' = IF ok THEN [status EXCEPT !.pc = "poll", !.polls = 1]
                  ELSE [status EXCEPT !.pc = "failed"]
    /\ UNCHANGED <<engine, mon, ui, call>>

\* `while let Ok(Some(response)) = device.try_read()`: a response is read
StatusRead(r) ==
    /\ status.pc = "poll"
    /\ status' =
         CASE r.field = "Power" ->
                [status EXCEPT !.power = Some(r.on), !.arrived = @ \cup {"Power"}]
           [] r.field = "Brightness" ->
                [status EXCEPT !.brightness = Some(r.level), !.arrived = @ \cup {"Brightness"}]
           [] r.field = "Temperature" ->
                [status EXCEPT !.temperature = Some(r.level), !.arrived = @ \cup {"Temperature"}]
    /\ UNCHANGED <<engine, mon, ui, call>>

\* try_read returns Ok(None) or Err: the poll ends, the loop breaks or goes on
StatusPollEnd ==
    /\ status.pc = "poll"
    /\ status' =
         IF (status.power.some /\ status.brightness.some /\ status.temperature.some)
            \/ status.polls = POLLS
         THEN [status EXCEPT !.pc = "print"]
         ELSE [status EXCEPT !.polls = @ + 1]
    /\ UNCHANGED <<engine, mon, ui, call>>

\* brightness_pct is computed and the JSON line printed
StatusPrint(overflow_checks) ==
    /\ status.pc = "print"
    /\ status' =
         IF ~status.brightness.some THEN [status EXCEPT !.pc = "done"]
         ELSE LET pct == BrightnessPct(status.brightness.v, overflow_checks) IN
              IF pct.panic THEN [status EXCEPT !.pc = "panic"]
              ELSE [status EXCEPT !.pc = "done", !.brightness_pct = Some(pct.v)]
    /\ UNCHANGED <<engine, mon, ui, call>>

\* ---- protocol.rs: Command::to_bytes ----
SET_POWER == 301925404
SET_BRIGHTNESS == 301925452
SET_TEMPERATURE == 301925532
GET_POWER == 301925377
GET_BRIGHTNESS == 301925425
GET_TEMPERATURE == 301925505

\* enum Command with any u16 payload tried
Command ==
    {[op |-> "SetPower", on |-> b] : b \in BOOLEAN}
    \cup {[op |-> o, level |-> l] : o \in {"SetBrightness", "SetTemperature"},
                                   l \in {0, 20, 250, 255, 256, 2700, 6500, 65535}}
    \cup {GetPower, GetBrightness, GetTemperature}

Opcode(cmd) ==
    CASE cmd.op = "SetPower" -> SET_POWER
      [] cmd.op = "SetBrightness" -> SET_BRIGHTNESS
      [] cmd.op = "SetTemperature" -> SET_TEMPERATURE
      [] cmd.op = "GetPower" -> GET_POWER
      [] cmd.op = "GetBrightness" -> GET_BRIGHTNESS
      [] cmd.op = "GetTemperature" -> GET_TEMPERATURE

\* u32::to_be_bytes, u16::to_be_bytes, u16::to_le_bytes
BE32(n) == <<n \div 16777216, (n \div 65536) % 256, (n \div 256) % 256, n % 256>>
BE16(v) == <<v \div 256, v % 256>>
LE16(v) == <<v % 256, v \div 256>>

\* buf with bytes written from offset at (offsets count from 0)
CopyFrom(buf, at, bytes) ==
    SubSeq(buf, 1, at) \o bytes \o SubSeq(buf, at + Len(bytes) + 1, Len(buf))

\* [0u8; 20]
ZeroBuf == <<0, 0, 0, 0, 0, 0, 0, 0, 0, 0, 0, 0, 0, 0, 0, 0, 0, 0, 0, 0>>

\* variant: the u16 payload is written low byte first
to_bytes_LittleEndian(cmd) ==
    LET buf == CopyFrom(ZeroBuf, 0, BE32(Opcode(cmd)))
    IN CASE cmd.op = "SetPower" -> CopyFrom(buf, 4, <<IF cmd.on THEN 1 ELSE 0>>)
         [] cmd.op \in {"SetBrightness", "SetTemperature"} -> CopyFrom(buf, 4, LE16(cmd.level))
         [] OTHER -> buf

\* variant: the u16 payload is written one byte further on
to_bytes_PayloadAtFive(cmd) ==
    LET buf == CopyFrom(ZeroBuf, 0, BE32(Opcode(cmd)))
    IN CASE cmd.op = "SetPower" -> CopyFrom(buf, 4, <<IF cmd.on THEN 1 ELSE 0>>)
         [] cmd.op \in {"SetBrightness", "SetTemperature"} -> CopyFrom(buf, 5, BE16(cmd.level))
         [] OTHER -> buf

to_bytes(cmd) ==
    LET buf == CopyFrom(ZeroBuf, 0, BE32(Opcode(cmd)))
    IN CASE cmd.op = "SetPower" -> CopyFrom(buf, 4, <<IF cmd.on THEN 1 ELSE 0>>)
         [] cmd.op \in {"SetBrightness", "SetTemperature"} -> CopyFrom(buf, 4, BE16(cmd.level))
         [] OTHER -> buf

Encode(cmd) == Applied1("to_bytes", cmd, to_bytes(cmd))

\* ---- protocol.rs: Response::from_bytes; usb.rs: try_read ----
\* variant: a temperature is taken from the byte at offset 5 alone
from_bytes_LowByteOnly(data) ==
    IF Len(data) < 6 THEN None
    ELSE CASE data[4] = 0 -> Some([on |-> data[5] # 0, field |-> "Power", hw |-> TRUE])
           [] data[4] = 1 -> Some([on |-> data[5] # 0, field |-> "Power", hw |-> FALSE])
           [] data[4] = 16 -> Some([level |-> data[6], field |-> "Brightness", hw |-> TRUE])
           [] data[4] = 49 -> Some([level |-> data[6], field |-> "Brightness", hw |-> FALSE])
           [] data[4] = 32 -> Some([level |-> data[6], field |-> "Temperature", hw |-> TRUE])
           [] data[4] = 129 -> Some([level |-> data[6], field |-> "Temperature", hw |-> FALSE])
           [] OTHER -> None

\* data[k] of the source is data[k + 1] here
from_bytes(data) ==
    IF Len(data) < 6 THEN None
    ELSE CASE data[4] = 0 -> Some([on |-> data[5] # 0, field |-> "Power", hw |-> TRUE])
           [] data[4] = 1 -> Some([on |-> data[5] # 0, field |-> "Power", hw |-> FALSE])
           [] data[4] = 16 -> Some([level |-> data[6], field |-> "Brightness", hw |-> TRUE])
           [] data[4] = 49 -> Some([level |-> data[6], field |-> "Brightness", hw |-> FALSE])
           [] data[4] = 32 ->
                Some([level |-> data[5] * 256 + data[6], field |-> "Temperature", hw |-> TRUE])
           [] data[4] = 129 ->
                Some([level |-> data[5] * 256 + data[6], field |-> "Temperature", hw |-> FALSE])
           [] OTHER -> None

\* the outcome of read_timeout: an error, or the bytes read
ReadFailed == [err |-> TRUE, data |-> <<>>]
ReadBytes(data) == [err |-> FALSE, data |-> data]

\* Result<Option<Response>, Error>
try_read(read) ==
    IF read.err THEN [ok |-> FALSE, resp |-> None]
    ELSE IF Len(read.data) = 0 THEN [ok |-> TRUE, resp |-> None]
    ELSE [ok |-> TRUE, resp |-> from_bytes(read.data)]

\* reports tried: length, first byte, tag and the two payload bytes vary
Report(len, b0, tag, b4, b5) ==
    SubSeq(CopyFrom(ZeroBuf, 0, <<b0, 255, 4, tag, b4, b5>>), 1, len)

Reports ==
    {Report(len, b0, tag, b4, b5) :
        len \in {0, 5, 6, 20}, b0 \in {0, 17},
        tag \in {0, 1, 2, 16, 28, 32, 49, 129, 255},
        b4 \in {0, 1, 25}, b5 \in {0, 100, 255}}

\* ---- a Set command echoed as a response ----
\* the Set commands within the device's ranges
ValidSet ==
    {[op |-> "SetPower", on |-> b] : b \in BOOLEAN}
    \cup {[op |-> "SetBrightness", level |-> l] :
            l \in {MIN_BRIGHTNESS, MIN_BRIGHTNESS + 1, 135, MAX_BRIGHTNESS - 1, MAX_BRIGHTNESS}}
    \cup {[op |-> "SetTemperature", level |-> l] :
            l \in {MIN_TEMPERATURE, MIN_TEMPERATURE + 1, 5000, MAX_TEMPERATURE - 1, MAX_TEMPERATURE}}

\* the tag from_bytes matches for the command's field
TagOf(cmd, hw) ==
    CASE cmd.op = "SetPower" -> IF hw THEN 0 ELSE 1
      [] cmd.op = "SetBrightness" -> IF hw THEN 16 ELSE 49
      [] cmd.op = "SetTemperature" -> IF hw THEN 32 ELSE 129

\* the bytes of the command with the tag at offset 3
Echo(cmd, hw) == CopyFrom(to_bytes(cmd), 3, <<TagOf(cmd, hw)>>)

RoundTrip(cmd, hw) ==
    Applied1("round_trip", [hw |-> hw, cmd |-> cmd], from_bytes(Echo(cmd, hw)))

Decode(data) == Applied1("from_bytes", data, from_bytes(data))

TryRead(read) == Applied1("try_read", read, try_read(read))

\* ---- the functions applied to the arguments tried ----
NextFunctions ==
    \/ \E value \in SliderBrightness : GuiBrightness(value)
    \/ \E value \in SliderTemperature : GuiTemperature(value)
    \/ \E percent \in Percents : HeadlessBrightness(percent)
    \/ \E temp \in Kelvins : HeadlessTemperature(temp)
    \/ \E cmd \in Command : Encode(cmd)
    \/ \E cmd \in ValidSet, hw \in BOOLEAN : RoundTrip(cmd, hw)
    \/ \E data \in Reports : Decode(data)
    \/ \E read \in {ReadFailed} \cup {ReadBytes(data) : data \in Reports} : TryRead(read)

SpecFunctions == Init /\ [][NextFunctions]_vars

\* ---- run_headless --status against any device ----
NextStatus ==
    \/ \E ok \in BOOLEAN : StatusStart(ok)
    \/ \E r \in StatusResponse : StatusRead(r)
    \/ StatusPollEnd
    \/ \E overflow_checks \in BOOLEAN : StatusPrint(overflow_checks)

SpecStatus == Init /\ [][NextStatus]_vars

\* ---- observations used by the properties ----
\* the step just taken read a response of the given field and source
ReadOf(field, is_hw) ==
    /\ io.call = "read"
    /\ io.ok
    /\ io.resp.field = field
    /\ io.resp.hw = is_hw

\* a marker is set and less than PENDING_TIMEOUT old
InWindow(m) == m # NoMarker /\ m < PENDING_TIMEOUT

\* a marker is set and at least PENDING_TIMEOUT old
Expired(m) == m # NoMarker /\ m >= PENDING_TIMEOUT

\* the step just taken was a failed send or read on the handle
TransportFailed == io.call \in {"send", "read"} /\ ~io.ok

\* the step just taken took the head of the command queue
TookCommand == prev.cmd_q # <<>> /\ cmd_q = Tail(prev.cmd_q) /\ prev.pc \in {"recv", "tick"}

\* C1: a non-hardware-sourced Brightness (Temperature) response read while
\* the field's pending marker is set and less than 300 ms old is discarded:
\* the field and the marker are unchanged and no event is emitted.
C1_RejectInsideWindow ==
    /\ (ReadOf("Brightness", FALSE) /\ InWindow(prev.state.pending_brightness))
        => /\ state.brightness = prev.state.brightness
           /\ state.pending_brightness = prev.state.pending_brightness
           /\ evt_out = <<>>
    /\ (ReadOf("Temperature", FALSE) /\ InWindow(prev.state.pending_temperature))
        => /\ state.temperature = prev.state.temperature
           /\ state.pending_temperature = prev.state.pending_temperature
           /\ evt_out = <<>>

C1_Witness ==
    /\ ReadOf("Brightness", FALSE)
    /\ InWindow(prev.state.pending_brightness)
    /\ io.resp.level # prev.state.brightness
    /\ state.brightness = prev.state.brightness

\* C2: a non-hardware-sourced Brightness (Temperature) response read while
\* the field's pending marker is set and at least 300 ms old is accepted:
\* the field takes the value, the event is emitted, the marker becomes None.
C2_AcceptAfterWindow ==
    /\ (ReadOf("Brightness", FALSE) /\ Expired(prev.state.pending_brightness))
        => /\ state.brightness = io.resp.level
           /\ evt_out = <<EvBrightness(io.resp.level)>>
           /\ state.pending_brightness = NoMarker
    /\ (ReadOf("Temperature", FALSE) /\ Expired(prev.state.pending_temperature))
        => /\ state.temperature = io.resp.level
           /\ evt_out = <<EvTemperature(io.resp.level)>>
           /\ state.pending_temperature = NoMarker

C2_Witness ==
    /\ ReadOf("Temperature", FALSE)
    /\ Expired(prev.state.pending_temperature)
    /\ io.resp.level # prev.state.temperature
    /\ state.pending_temperature = NoMarker

\* C3: every hardware-sourced Brightness (Temperature) response read while
\* connected updates the field and emits the event, whatever the marker.
C3_HardwareAccepted ==
    /\ ReadOf("Brightness", TRUE)
        => /\ prev.device
           /\ state.brightness = io.resp.level
           /\ evt_out = <<EvBrightness(io.resp.level)>>
    /\ ReadOf("Temperature", TRUE)
        => /\ prev.device
           /\ state.temperature = io.resp.level
           /\ evt_out = <<EvTemperature(io.resp.level)>>

C3_Witness ==
    /\ ReadOf("Brightness", TRUE)
    /\ prev.state.pending_brightness = 0
    /\ io.resp.level # prev.state.brightness
    /\ state.brightness = io.resp.level

\* C4: every Power response read while connected sets state.power to the
\* value and emits exactly one Power event with it.
C4_PowerAccepted ==
    (io.call = "read" /\ io.ok /\ io.resp.field = "Power")
        => /\ prev.device
           /\ state.power = io.resp.on
           /\ evt_out = <<EvPower(io.resp.on)>>

C4_Witness ==
    /\ ReadOf("Power", FALSE)
    /\ InWindow(prev.state.pending_brightness)
    /\ InWindow(prev.state.pending_temperature)
    /\ io.resp.on = prev.state.power
    /\ evt_out = <<EvPower(io.resp.on)>>

\* C5: with no pending marker for the field, every non-hardware-sourced
\* Brightness (Temperature) response is accepted: field updated, event emitted.
C5_AcceptWithoutMarker ==
    /\ (ReadOf("Brightness", FALSE) /\ prev.state.pending_brightness = NoMarker)
        => /\ state.brightness = io.resp.level
           /\ evt_out = <<EvBrightness(io.resp.level)>>
    /\ (ReadOf("Temperature", FALSE) /\ prev.state.pending_temperature = NoMarker)
        => /\ state.temperature = io.resp.level
           /\ evt_out = <<EvTemperature(io.resp.level)>>

C5_Witness ==
    /\ ReadOf("Brightness", FALSE)
    /\ prev.state.pending_brightness = NoMarker
    /\ InWindow(prev.state.pending_temperature)
    /\ io.resp.level # prev.state.brightness
    /\ state.brightness = io.resp.level

Queries == {GetPower, GetBrightness, GetTemperature}

C7_OneErrorPerRun ==
    /\ run_len >= 1 => run_errs = 1
    /\ (io.call = "open" /\ ~io.ok)
        => /\ last_error = io.err
           /\ \/ prev.last_error # io.err /\ evt_out = <<EvError(io.err)>>
              \/ prev.last_error = io.err /\ evt_out = <<>>

C7_Witness ==
    /\ run_len = 3
    /\ run_errs = 1
    /\ io.call = "open" /\ ~io.ok
    /\ evt_out = <<>>

\* C8: a successful open() is followed by the sends of GetPower,
\* GetBrightness and GetTemperature in that order, with no queued command
\* taken in between; the handle is stored and one Connected event is emitted
\* with the last of them, and at no other step.
C8_QueriesThenConnected ==
    /\ (io.call = "open" /\ io.ok)
        => prev.pc = "open" /\ pc = "get_power" /\ ~device /\ evt_out = <<>>
    /\ (prev.pc = "get_power" /\ pc # prev.pc)
        => /\ io.call = "send" /\ io.cmd = GetPower
           /\ pc = "get_brightness" /\ ~device /\ evt_out = <<>>
           /\ cmd_q = prev.cmd_q
    /\ (prev.pc = "get_brightness" /\ pc # prev.pc)
        => /\ io.call = "send" /\ io.cmd = GetBrightness
           /\ pc = "get_temperature" /\ ~device /\ evt_out = <<>>
           /\ cmd_q = prev.cmd_q
    /\ (prev.pc = "get_temperature" /\ pc # prev.pc)
        => /\ io.call = "send" /\ io.cmd = GetTemperature
           /\ pc = "tick" /\ device /\ evt_out = <<EvConnected>>
           /\ cmd_q = prev.cmd_q
    /\ pc = "get_power" => (prev.pc \in {"open", "get_power"})
    /\ pc = "get_brightness" => (prev.pc \in {"get_power", "get_brightness"})
    /\ pc = "get_temperature" => (prev.pc \in {"get_brightness", "get_temperature"})
    /\ (device /\ ~prev.device) => prev.pc = "get_temperature"
    /\ (\E i \in 1..Len(evt_out) : evt_out[i] = EvConnected)
        => (prev.pc = "get_temperature" /\ evt_out = <<EvConnected>>)
    /\ TookCommand => prev.pc \notin {"open", "get_power", "get_brightness", "get_temperature"}

C8_Witness ==
    /\ prev.pc = "get_temperature"
    /\ io.call = "send" /\ io.cmd = GetTemperature /\ io.ok
    /\ prev.cmd_q # <<>>
    /\ device
    /\ evt_out = <<EvConnected>>

\* C9 as stated: once the non-hardware replies for all three fields have been
\* read on a connection, that connection has sent one Connected event and,
\* for each of the three fields, the event carrying the replied value.
C9_AllRepliesReported ==
    replied = Fields => (connects = 1 /\ reported = Fields)

\* C9 amended: a connection sends exactly one Connected event, and each
\* non-hardware reply read on it sends the event carrying the replied value
\* unless the reply is read while the pending marker of its field is less
\* than 300 ms old (the reply is then discarded); a Power reply is never
\* discarded.
C9_RepliesReportedUnlessInWindow ==
    /\ device => connects = 1
    /\ \A f \in replied : f \in reported \/ f \in stale
    /\ reported \subseteq replied
    /\ "Power" \notin stale
    /\ (replied = Fields /\ stale = {}) => reported = Fields

C9_Witness ==
    /\ device
    /\ connects = 1
    /\ replied = Fields
    /\ stale = {"Brightness"}
    /\ reported = {"Power", "Temperature"}

\* C10: a command received while the engine is disconnected updates the
\* local DeviceState field it names, writes nothing to the device and puts
\* no event on the event queue.
C10_DisconnectedCommandIsLocal ==
    (TookCommand /\ prev.pc = "recv")
        => LET cmd == Head(prev.cmd_q) IN
           /\ ~prev.device
           /\ io.call = "none"
           /\ evt_out = <<>>
           /\ cmd.op = "SetPower" => state.power = cmd.on
           /\ cmd.op = "SetBrightness" => state.brightness = cmd.level
           /\ cmd.op = "SetTemperature" => state.temperature = cmd.level
           /\ cmd.op = "Retry" => state = prev.state

C10_Witness ==
    /\ TookCommand
    /\ prev.pc = "recv"
    /\ Head(prev.cmd_q).op = "SetBrightness"
    /\ prev.state.brightness # Head(prev.cmd_q).level
    /\ state.brightness = Head(prev.cmd_q).level
    /\ io.call = "none"

\* the DeviceState new is old after the command, stamped at the current time
Applied(cmd, old, new) ==
    CASE cmd.op = "Retry" -> new = old
      [] cmd.op = "SetPower" -> new = [old EXCEPT !.power = cmd.on]
      [] cmd.op = "SetBrightness" ->
            new = [old EXCEPT !.brightness = cmd.level, !.pending_brightness = 0]
      [] cmd.op = "SetTemperature" ->
            new = [old EXCEPT !.temperature = cmd.level, !.pending_temperature = 0]

\* C11: handle_command on a connected engine: SetPower(v) sets power to v and
\* writes SetPower(v), leaving both markers; SetBrightness(v) and
\* SetTemperature(v) set the field to v, stamp its marker with the current
\* time and write the command; Retry leaves DeviceState and writes nothing.
C11_ConnectedCommand ==
    (TookCommand /\ prev.pc = "tick")
        => LET cmd == Head(prev.cmd_q) IN
           /\ prev.device
           /\ Applied(cmd, prev.state, state)
           /\ cmd.op = "Retry" => io.call = "none"
           /\ cmd.op # "Retry" => (io.call = "send" /\ io.cmd = cmd)
           /\ cmd.op = "SetPower" =>
                /\ state.pending_brightness = prev.state.pending_brightness
                /\ state.pending_temperature = prev.state.pending_temperature

C11_Witness ==
    /\ TookCommand
    /\ prev.pc = "tick"
    /\ Head(prev.cmd_q).op = "SetTemperature"
    /\ prev.state.pending_temperature = PENDING_TIMEOUT
    /\ state.pending_temperature = 0
    /\ state.temperature = Head(prev.cmd_q).level
    /\ io.call = "send" /\ io.ok

\* C12: in a connected tick the queued commands are applied from the head of
\* the queue, in submission order, and a read is attempted only once the
\* queue is empty, so a response is reconciled against the state and the
\* markers left by every command that was queued.
C12_DrainThenRead ==
    /\ io.call = "read" => (prev.pc = "tick" /\ prev.device /\ prev.cmd_q = <<>>)
    /\ (prev.pc = "tick" /\ cmd_q # prev.cmd_q)
        => /\ prev.cmd_q # <<>>
           /\ cmd_q = Tail(prev.cmd_q)
           /\ io.call # "read"
           /\ Applied(Head(prev.cmd_q), prev.state, state)

C12_Witness ==
    /\ ReadOf("Brightness", FALSE)
    /\ prev.cmd_q = <<>>
    /\ prev.state.pending_brightness = 0
    /\ prev.state.pending_temperature = 0
    /\ prev.state.brightness # io.resp.level
    /\ evt_out = <<>>

\* C13: a queued command whose write fails in a connected tick takes the
\* engine to Disconnected in that step: the command's own mutation and those
\* before it stay, the commands behind it stay in the queue in their order,
\* no read follows before a new connection, and the queue only ever shrinks
\* by its head being applied.
C13_FailedCommandKeepsQueue ==
    /\ (TookCommand /\ prev.pc = "tick" /\ io.call = "send" /\ ~io.ok)
        => /\ ~device
           /\ pc = "open"
           /\ evt_out = <<EvError(ErrDisconnected)>>
           /\ cmd_q = Tail(prev.cmd_q)
           /\ Applied(Head(prev.cmd_q), prev.state, state)
    /\ Len(cmd_q) < Len(prev.cmd_q)
        => /\ cmd_q = Tail(prev.cmd_q)
           /\ prev.pc \in {"recv", "tick"}
           /\ Applied(Head(prev.cmd_q), prev.state, state)
    /\ io.call = "read" => prev.device
    /\ pc = "done" => cmd_q = <<>>

C13_Witness ==
    /\ TookCommand
    /\ prev.pc = "tick"
    /\ io.call = "send" /\ ~io.ok
    /\ Len(prev.cmd_q) = 2
    /\ Head(prev.cmd_q).op = "SetBrightness"
    /\ cmd_q = <<[op |-> "SetTemperature", level |-> 5000]>>
    /\ state.pending_brightness = 0
    /\ ~device

\* C14: once the command channel is closed, from the Connected or the
\* Disconnected state, device_loop eventually returns.
C14_CloseTerminates == closed ~> (pc = "done")

\* the step just taken handled a queued command with the given op
Handled(op) == TookCommand /\ Head(prev.cmd_q).op = op

\* C15 (as stated): a marker whose 300 ms window has expired does not stay
\* set: a connected tick that reaches its read with an expired marker, no new
\* write of the field having been issued, ends with the marker cleared.
C15_ExpiryClears ==
    /\ (io.call = "read" /\ Expired(prev.state.pending_brightness))
        => state.pending_brightness = NoMarker
    /\ (io.call = "read" /\ Expired(prev.state.pending_temperature))
        => state.pending_temperature = NoMarker

\* C15 (amended): a set marker is cleared only by a non-hardware-sourced
\* response of its field read once the marker is at least 300 ms old, and
\* such a response always clears it; expiry alone clears nothing: an expired
\* marker stays as it is in every other step, except that a new write of the
\* field restamps it.
C15_ClearedByLateConfirmationOnly ==
    /\ (prev.state.pending_brightness # NoMarker /\ state.pending_brightness = NoMarker)
        => /\ ReadOf("Brightness", FALSE)
           /\ Expired(prev.state.pending_brightness)
           /\ evt_out = <<EvBrightness(io.resp.level)>>
    /\ (prev.state.pending_temperature # NoMarker /\ state.pending_temperature = NoMarker)
        => /\ ReadOf("Temperature", FALSE)
           /\ Expired(prev.state.pending_temperature)
           /\ evt_out = <<EvTemperature(io.resp.level)>>
    /\ (ReadOf("Brightness", FALSE) /\ Expired(prev.state.pending_brightness))
        => state.pending_brightness = NoMarker
    /\ (ReadOf("Temperature", FALSE) /\ Expired(prev.state.pending_temperature))
        => state.pending_temperature = NoMarker
    /\ (Expired(prev.state.pending_brightness) /\ ~ReadOf("Brightness", FALSE))
        => state.pending_brightness =
              IF Handled("SetBrightness") THEN 0 ELSE prev.state.pending_brightness
    /\ (Expired(prev.state.pending_temperature) /\ ~ReadOf("Temperature", FALSE))
        => state.pending_temperature =
              IF Handled("SetTemperature") THEN 0 ELSE prev.state.pending_temperature

C15_Witness ==
    /\ io.call = "read"
    /\ io.ok
    /\ io.resp = NoResp
    /\ Expired(prev.state.pending_brightness)
    /\ state.pending_brightness = PENDING_TIMEOUT
    /\ prev.state.pending_temperature = NoMarker

\* C16: initialized is true exactly once at least two of the three fields
\* (power, brightness, temperature) have reported a value through a
\* field-update event: it is set only then, and it is set then.
C16_InitializedIffTwoFields ==
    /\ initialized => Cardinality(at_init) >= 2
    /\ Cardinality(updated) >= 2 => initialized

\* the multiple of 100 nearest to v, a tie going up
Nearest100(v) == ((v + 50) \div 100) * 100

\* C17: every temperature sent in a SetTemperature command, by the GUI path
\* (clamp_temperature) and by the headless --temperature path, lies in
\* [2700, 6500] and is a multiple of 100: the request rounded to the nearest
\* 100, then clamped; a request of 2650 yields 2700.
C17_TemperatureSteppedAndClamped ==
    /\ call.fn \in {"clamp_temperature", "headless_temperature"}
        => /\ call.out >= 2700
           /\ call.out <= 6500
           /\ call.out % 100 = 0
    /\ call.fn = "headless_temperature"
        => /\ call.out = Clamp(Nearest100(call.arg), 2700, 6500)
           /\ call.arg = 2650 => call.out = 2700
    /\ (call.fn = "clamp_temperature" /\ call.arg = F32(5300)) => call.out = 2700

\* C18: the brightness percentage p is sent as 0x14 + p * (0xfa - 0x14) / 100
\* with p clamped to [0, 100]: 0 gives 0x14, 100 gives 0xfa, and every input,
\* 150 included, gives a value in [0x14, 0xfa]; clamp_brightness never
\* returns a value outside [0x14, 0xfa].
C18_BrightnessInRange ==
    /\ call.fn = "headless_brightness"
        => /\ call.out = 20 + ((IF call.arg > 100 THEN 100 ELSE call.arg) * 230) \div 100
           /\ call.out >= 20
           /\ call.out <= 250
           /\ call.arg = 0 => call.out = 20
           /\ call.arg = 100 => call.out = 250
           /\ call.arg = 150 => call.out = 250
    /\ call.fn = "clamp_brightness"
        => /\ call.out >= 20
           /\ call.out <= 250

C18_Witness ==
    /\ call.fn = "headless_brightness"
    /\ call.arg = 150
    /\ call.out = 250

\* C19: --status prints brightness as null or as an integer in 0..100 for
\* every byte 0..255 a brightness report can carry, and each of power,
\* brightness and temperature is null exactly when no response for that
\* field was read within the polls.
C19_StatusBrightnessPercent ==
    /\ status.pc # "panic"
    /\ status.pc = "done"
        => /\ status.brightness_pct.some
                => (status.brightness_pct.v >= 0 /\ status.brightness_pct.v <= 100)
           /\ status.power.some <=> "Power" \in status.arrived
           /\ status.brightness_pct.some <=> "Brightness" \in status.arrived
           /\ status.temperature.some <=> "Temperature" \in status.arrived

\* C20: to_bytes returns 20 bytes: the opcode big-endian in bytes 0..3,
\* SetPower's boolean as 0 or 1 at offset 4, the u16 of SetBrightness and
\* SetTemperature big-endian at offsets 4..5, nothing but the opcode for the
\* queries, and zero everywhere else.
C20_ToBytesLayout ==
    call.fn = "to_bytes"
        => LET cmd == call.arg
               buf == call.out
               opcode ==
                 CASE cmd.op = "SetPower" -> <<17, 255, 4, 28>>
                   [] cmd.op = "SetBrightness" -> <<17, 255, 4, 76>>
                   [] cmd.op = "SetTemperature" -> <<17, 255, 4, 156>>
                   [] cmd.op = "GetPower" -> <<17, 255, 4, 1>>
                   [] cmd.op = "GetBrightness" -> <<17, 255, 4, 49>>
                   [] cmd.op = "GetTemperature" -> <<17, 255, 4, 129>>
               payload ==
                 CASE cmd.op = "SetPower" -> <<IF cmd.on THEN 1 ELSE 0>>
                   [] cmd.op \in {"SetBrightness", "SetTemperature"} ->
                        <<cmd.level \div 256, cmd.level % 256>>
                   [] OTHER -> <<>>
           IN /\ Len(buf) = 20
              /\ \A i \in 1..20 : buf[i] \in 0..255
              /\ SubSeq(buf, 1, 4) = opcode
              /\ SubSeq(buf, 5, 4 + Len(payload)) = payload
              /\ \A i \in (5 + Len(payload))..20 : buf[i] = 0

C20_Witness ==
    /\ call.fn = "to_bytes"
    /\ call.arg = [op |-> "SetTemperature", level |-> 6500]
    /\ call.out[5] = 25
    /\ call.out[6] = 100
    /\ call.out[7] = 0

\* the tags of protocol.rs and what they select
KnownTags == {0, 1, 16, 32, 49, 129}
TagField(tag) ==
    IF tag \in {0, 1} THEN "Power" ELSE IF tag \in {16, 49} THEN "Brightness" ELSE "Temperature"

\* what the claim expects from_bytes to return for data
Decoded(data, out) ==
    IF Len(data) < 6 \/ data[4] \notin KnownTags THEN ~out.some
    ELSE /\ out.some
         /\ out.v.field = TagField(data[4])
         /\ out.v.hw = (data[4] \in {0, 16, 32})
         /\ out.v.field = "Power" => out.v.on = (data[5] # 0)
         /\ out.v.field = "Brightness" => out.v.level = data[6]
         /\ out.v.field = "Temperature" => out.v.level = 256 * data[5] + data[6]

\* C21: from_bytes returns None exactly when the input has fewer than 6
\* bytes or the byte at offset 3 is no known tag; otherwise the response of
\* the tagged field, hardware-sourced by the tag alone, power from byte 4
\* nonzero, brightness from byte 5, temperature from bytes 4..5 big-endian;
\* try_read returns Ok(None), not an error, for an undecodable report.
C21_FromBytes ==
    /\ call.fn = "from_bytes" => Decoded(call.arg, call.out)
    /\ call.fn = "try_read"
        => /\ call.out.ok = ~call.arg.err
           /\ ~call.arg.err => Decoded(call.arg.data, call.out.resp)

C21_Witness ==
    /\ call.fn = "try_read"
    /\ ~call.arg.err
    /\ Len(call.arg.data) = 20
    /\ call.arg.data[4] = 28
    /\ call.out.ok
    /\ ~call.out.resp.some

\* C22: for every Set command within the ranges (any boolean, brightness in
\* [0x14, 0xfa], temperature in [2700, 6500]), decoding the command's bytes
\* with the tag of its field at offset 3 gives a response of that field
\* carrying exactly the command's value.
C22_EchoRoundTrip ==
    call.fn = "round_trip"
        => LET cmd == call.arg.cmd IN
           /\ call.out.some
           /\ call.out.v.hw = call.arg.hw
           /\ cmd.op = "SetPower"
                => (call.out.v.field = "Power" /\ call.out.v.on = cmd.on)
           /\ cmd.op = "SetBrightness"
                => (call.out.v.field = "Brightness" /\ call.out.v.level = cmd.level)
           /\ cmd.op = "SetTemperature"
                => (call.out.v.field = "Temperature" /\ call.out.v.level = cmd.level)

C22_Witness ==
    /\ call.fn = "round_trip"
    /\ call.arg.cmd = [op |-> "SetBrightness", level |-> 250]
    /\ ~call.arg.hw
    /\ call.out.some
    /\ call.out.v.field = "Brightness"
    /\ call.out.v.level = 250

SetOps == {"SetPower", "SetBrightness", "SetTemperature"}

\* C23: in every engine state, applying SetPower(true) twice gives the state
\* that applying it once gives: power true, every other field and both
\* markers as they were; and handle_command writes at most once per command
\* it is given: every write of a Set command is the write of the one queued
\* command taken in that step, so such writes never outnumber the commands
\* submitted.
C23_SetPowerIdempotent ==
    /\ LET c == [op |-> "SetPower", on |-> TRUE]
           once == ApplyCommand(c, state)
       IN /\ once = [state EXCEPT !.power = TRUE]
          /\ ApplyCommand(c, once) = once
    /\ (Handled("SetPower") /\ Head(prev.cmd_q).on /\ prev.state.power)
        => state = prev.state
    /\ (io.call = "send" /\ io.cmd.op \in SetOps)
        => /\ TookCommand
           /\ prev.pc = "tick"
           /\ io.cmd = Head(prev.cmd_q)
           /\ Len(cmd_q) = Len(prev.cmd_q) - 1

C23_Witness ==
    /\ Handled("SetPower")
    /\ Head(prev.cmd_q).on
    /\ prev.state.power
    /\ prev.state.pending_brightness = TimeStep
    /\ state = prev.state
    /\ io.call = "send"
    /\ io.ok
    /\ cmd_q = <<>>

\* the step just taken sent a field-update event
SentFieldEvent == \E i \in 1..Len(evt_out) : evt_out[i].kind \in Fields

\* C24: in the event stream of device_loop every Power, Brightness or
\* Temperature event comes after a Connected event with no 'Device
\* disconnected' event in between, Connected and 'Device disconnected'
\* alternate starting with Connected, and field-update events are sent only
\* by a step that holds the device handle.
C24_EventStreamAlternates ==
    /\ stream_ok
    /\ (link = "up") <=> device
    /\ SentFieldEvent => (prev.device /\ device /\ link = "up")

C24_Witness ==
    /\ connects = 1
    /\ link = "up"
    /\ stream_ok
    /\ io.call = "read"
    /\ evt_out = <<EvBrightness(90)>>

\* C25: an accepted hardware-sourced Brightness (Temperature) response leaves
\* the field's marker as it was, so a non-hardware-sourced response read
\* later inside the original window is still rejected; and a response of
\* one field changes no other field and no other field's marker.
C25_HardwareLeavesMarker ==
    /\ ReadOf("Brightness", TRUE)
        => /\ state.brightness = io.resp.level
           /\ state.pending_brightness = prev.state.pending_brightness
    /\ ReadOf("Temperature", TRUE)
        => /\ state.temperature = io.resp.level
           /\ state.pending_temperature = prev.state.pending_temperature
    /\ (io.call = "read" /\ io.ok /\ io.resp.field = "Power")
        => state = [prev.state EXCEPT !.power = io.resp.on]
    /\ (io.call = "read" /\ io.ok /\ io.resp.field = "Brightness")
        => /\ state.power = prev.state.power
           /\ state.temperature = prev.state.temperature
           /\ state.pending_temperature = prev.state.pending_temperature
    /\ (io.call = "read" /\ io.ok /\ io.resp.field = "Temperature")
        => /\ state.power = prev.state.power
           /\ state.brightness = prev.state.brightness
           /\ state.pending_brightness = prev.state.pending_brightness
    /\ (ReadOf("Brightness", FALSE) /\ InWindow(prev.state.pending_brightness))
        => (state = prev.state /\ evt_out = <<>>)
    /\ (ReadOf("Temperature", FALSE) /\ InWindow(prev.state.pending_temperature))
        => (state = prev.state /\ evt_out = <<>>)

\* SetBrightness carries 90 only, so brightness MIN_BRIGHTNESS under a marker
\* still inside its window was put there by a hardware-sourced response
\* accepted after the stamp
C25_Witness ==
    /\ ReadOf("Brightness", FALSE)
    /\ io.resp.level = 90
    /\ prev.state.brightness = MIN_BRIGHTNESS
    /\ InWindow(prev.state.pending_brightness)
    /\ prev.state.pending_brightness > 0
    /\ state = prev.state
    /\ evt_out = <<>>

\* C26: when the write of a SetPower, SetBrightness or SetTemperature
\* command fails, DeviceState already holds the command's value (and, for
\* brightness and temperature, the fresh marker) as the engine goes to
\* Disconnected, and nothing the engine does while it holds no handle takes
\* that back: without a handle the fields change only by a command and a
\* marker only grows older.
C26_FailedWriteNotRolledBack ==
    /\ (io.call = "send" /\ ~io.ok /\ io.cmd.op \in SetOps)
        => /\ TookCommand
           /\ ~device
           /\ io.cmd.op = "SetPower" => state = [prev.state EXCEPT !.power = io.cmd.on]
           /\ io.cmd.op = "SetBrightness"
                => state = [prev.state EXCEPT !.brightness = io.cmd.level,
                                              !.pending_brightness = 0]
           /\ io.cmd.op = "SetTemperature"
                => state = [prev.state EXCEPT !.temperature = io.cmd.level,
                                              !.pending_temperature = 0]
    /\ (~prev.device /\ ~TookCommand)
        => /\ state.power = prev.state.power
           /\ state.brightness = prev.state.brightness
           /\ state.temperature = prev.state.temperature
           /\ state.pending_brightness >= prev.state.pending_brightness
           /\ state.pending_temperature >= prev.state.pending_temperature
           /\ state.pending_brightness = NoMarker <=> prev.state.pending_brightness = NoMarker
           /\ state.pending_temperature = NoMarker <=> prev.state.pending_temperature = NoMarker

C26_Witness ==
    /\ io.call = "send"
    /\ ~io.ok
    /\ io.cmd = [op |-> "SetTemperature", level |-> 5000]
    /\ prev.state.temperature = MIN_TEMPERATURE
    /\ prev.state.pending_temperature = NoMarker
    /\ state.temperature = 5000
    /\ state.pending_temperature = 0
    /\ ~device
    /\ pc = "open"

\* C27: the UI sends no SetPower, SetBrightness or SetTemperature command
\* while initialized is false (a callback run then sends nothing, only the
\* retry callback sends, and it sends Retry), and once initialized is true
\* no step makes it false again, whatever events arrive, Error and Connected
\* events of a disconnect and reconnect included.
C27_GatedUntilInitialized ==
    /\ [](~initialized => sent \in {NoCmd, [op |-> "Retry"]})
    /\ [][initialized => initialized']_vars

C27_Witness ==
    /\ initialized
    /\ app.error = ErrDisconnected
    /\ sent = [op |-> "SetBrightness", level |-> 90]
====
